---------------------------- MODULE Spec2Model ----------------------------
(***************************************************************************)
(* Smart Expense Tracker (src/expense_tracker.py).                         *)
(*                                                                         *)
(* The backing file expenses.json, the menu loop and the six operations.   *)
(* Text is a sequence of one-character strings, so that strip(), lower(),  *)
(* strptime(), str(date), int() and float() are computed, not assumed.     *)
(* An amount is held in hundredths (float("5") is 500): the sample amounts *)
(* are exactly representable and their sums are exact in binary floating   *)
(* point, so + on hundredths is the program's +.                           *)
(***************************************************************************)
EXTENDS Integers, Sequences, FiniteSets, TLC

\* The longest collection add_expense still appends to in the model.
MaxRecords == 2

VARIABLES
    file,      \* expenses.json
    pc,        \* "choose": menu() waits for a choice; "ran": an operation has returned
    running,   \* the menu loop is running (FALSE after Exit or an uncaught exception)
    op,        \* the last operation the menu ran
    inp,       \* the lines it read
    before,    \* expenses.json when it began
    saved,     \* it called save_data
    outcome,   \* what it reported
    error,     \* the exception that ended it, "none" if none
    shown,     \* the records it printed (view_all, search) or exported (export_csv)
    total,     \* the total it printed (view_all, monthly_summary)
    cats       \* the category lines it printed (monthly_summary)

vars == <<file, pc, running, op, inp, before, saved, outcome, error, shown, total, cats>>

(***************************************************************************)
(* Characters and text                                                     *)
(***************************************************************************)
Digits == <<"0", "1", "2", "3", "4", "5", "6", "7", "8", "9">>
LowerCase == <<"a", "b", "c", "d", "e", "f", "g", "h", "i", "j", "k", "l", "m",
               "n", "o", "p", "q", "r", "s", "t", "u", "v", "w", "x", "y", "z">>
UpperCase == <<"A", "B", "C", "D", "E", "F", "G", "H", "I", "J", "K", "L", "M",
               "N", "O", "P", "Q", "R", "S", "T", "U", "V", "W", "X", "Y", "Z">>

Range(s) == {s[i] : i \in DOMAIN s}
IndexOf(s, c) == CHOOSE i \in DOMAIN s : s[i] = c

IsDigit(c) == c \in Range(Digits)
DigitVal(c) == IndexOf(Digits, c) - 1

\* The code point of a character: what Python compares strings by.
Ord(c) ==
    IF c \in Range(Digits) THEN 47 + IndexOf(Digits, c)
    ELSE IF c \in Range(UpperCase) THEN 64 + IndexOf(UpperCase, c)
    ELSE IF c \in Range(LowerCase) THEN 96 + IndexOf(LowerCase, c)
    ELSE IF c = " " THEN 32
    ELSE IF c = "-" THEN 45
    ELSE IF c = "." THEN 46
    ELSE IF c = "/" THEN 47
    ELSE 127

\* a < b as Python compares two str values: by code point, a proper prefix first.
RECURSIVE StrLess(_, _)
StrLess(a, b) ==
    IF b = <<>> THEN FALSE
    ELSE IF a = <<>> THEN TRUE
    ELSE IF Head(a) = Head(b) THEN StrLess(Tail(a), Tail(b))
    ELSE Ord(Head(a)) < Ord(Head(b))

\* str.strip(): leading and trailing blanks removed.
RECURSIVE LStrip(_)
LStrip(s) == IF s # <<>> /\ Head(s) = " " THEN LStrip(Tail(s)) ELSE s
RECURSIVE RStrip(_)
RStrip(s) ==
    IF s # <<>> /\ s[Len(s)] = " " THEN RStrip(SubSeq(s, 1, Len(s) - 1)) ELSE s
Strip(s) == RStrip(LStrip(s))

\* str.lower()
LowerChar(c) ==
    IF c \in Range(UpperCase) THEN LowerCase[IndexOf(UpperCase, c)] ELSE c
Lower(s) == [i \in DOMAIN s |-> LowerChar(s[i])]

\* q in s: q is a substring of s.
Contains(s, q) ==
    \E i \in 1..(Len(s) + 1) :
        /\ i + Len(q) - 1 <= Len(s)
        /\ SubSeq(s, i, i + Len(q) - 1) = q

AllDigits(s) == s # <<>> /\ \A i \in DOMAIN s : IsDigit(s[i])

RECURSIVE ToNat(_)
ToNat(s) == IF s = <<>> THEN 0 ELSE 10 * ToNat(SubSeq(s, 1, Len(s) - 1)) + DigitVal(s[Len(s)])

\* The decimal digits of n, zero-padded to width w (the %04d / %02d of str(date)).
RECURSIVE Pad(_, _)
Pad(n, w) == IF w = 0 THEN <<>> ELSE Pad(n \div 10, w - 1) \o <<Digits[(n % 10) + 1]>>

\* text.split(sep)
RECURSIVE Split(_, _)
Split(s, sep) ==
    IF \A i \in DOMAIN s : s[i] # sep THEN <<s>>
    ELSE LET k == CHOOSE i \in DOMAIN s : s[i] = sep /\ \A j \in 1..(i - 1) : s[j] # sep
         IN  <<SubSeq(s, 1, k - 1)>> \o Split(SubSeq(s, k + 1, Len(s)), sep)

(***************************************************************************)
(* int(text) and float(text)                                               *)
(***************************************************************************)
Unsigned(s) == IF s # <<>> /\ Head(s) \in {"+", "-"} THEN Tail(s) ELSE s
Sign(s) == IF s # <<>> /\ Head(s) = "-" THEN -1 ELSE 1

\* int(text): an optional sign and decimal digits; anything else is a ValueError.
ParseInt(s) ==
    IF AllDigits(Unsigned(s))
    THEN [ok |-> TRUE, val |-> Sign(s) * ToNat(Unsigned(s))]
    ELSE [ok |-> FALSE, val |-> 0]

\* float(text) on the decimal notations [sign] digits [ "." [digits] ], in
\* hundredths; anything else is a ValueError.
ParseFloat(s) ==
    LET parts == Split(Unsigned(s), ".")
        whole == parts[1]
        frac  == IF Len(parts) = 2 THEN parts[2] ELSE <<>>
        good  == /\ Len(parts) <= 2
                 /\ AllDigits(whole)
                 /\ frac = <<>> \/ (AllDigits(frac) /\ Len(frac) <= 2)
        cents == IF Len(frac) = 0 THEN 0
                 ELSE IF Len(frac) = 1 THEN 10 * ToNat(frac)
                 ELSE ToNat(frac)
    IN  IF good
        THEN [ok |-> TRUE, val |-> Sign(s) * (100 * ToNat(whole) + cents)]
        ELSE [ok |-> FALSE, val |-> 0]

(***************************************************************************)
(* Dates                                                                   *)
(***************************************************************************)
IsLeap(y) == (y % 4 = 0 /\ y % 100 # 0) \/ y % 400 = 0
DaysInMonth(y, m) ==
    IF m = 2 THEN (IF IsLeap(y) THEN 29 ELSE 28)
    ELSE IF m \in {4, 6, 9, 11} THEN 30
    ELSE 31
\* datetime.date(y, m, d) accepts exactly these.
ValidDate(y, m, d) ==
    /\ y \in 1..9999
    /\ m \in 1..12
    /\ d \in 1..DaysInMonth(y, m)

NoDate == [y |-> 0, m |-> 0, d |-> 0]

\* The three formats of parse_date, in the order they are tried.
Formats == << [sep |-> "-", order |-> "YMD"],    \* %Y-%m-%d
              [sep |-> "-", order |-> "DMY"],    \* %d-%m-%Y
              [sep |-> "/", order |-> "YMD"] >>  \* %Y/%m/%d

\* strptime's fields: %Y is four digits; %m and %d are one or two digits (a
\* single-digit day may also be written with a leading blank).
YearField(f) == Len(f) = 4 /\ AllDigits(f)
MonthField(f) == Len(f) \in {1, 2} /\ AllDigits(f)
DayField(f) ==
    \/ Len(f) \in {1, 2} /\ AllDigits(f)
    \/ Len(f) = 2 /\ f[1] = " " /\ IsDigit(f[2])
DayVal(f) == IF f[1] = " " THEN DigitVal(f[2]) ELSE ToNat(f)

\* datetime.strptime(text, fmt).date(): ok is FALSE where it raises.
Strptime(text, fmt) ==
    LET fs == Split(text, fmt.sep)
        yf == IF fmt.order = "YMD" THEN fs[1] ELSE fs[3]
        df == IF fmt.order = "YMD" THEN fs[3] ELSE fs[1]
        mf == fs[2]
    IN  IF /\ Len(fs) = 3
           /\ YearField(yf) /\ MonthField(mf) /\ DayField(df)
           /\ ValidDate(ToNat(yf), ToNat(mf), DayVal(df))
        THEN [ok |-> TRUE, date |-> [y |-> ToNat(yf), m |-> ToNat(mf), d |-> DayVal(df)]]
        ELSE [ok |-> FALSE, date |-> NoDate]

\* parse_date(text): the first format that parses wins; ok is FALSE where it
\* raises ValueError.
RECURSIVE TryFormats(_, _)
TryFormats(text, k) ==
    IF k > Len(Formats) THEN [ok |-> FALSE, date |-> NoDate]
    ELSE IF Strptime(text, Formats[k]).ok THEN Strptime(text, Formats[k])
    ELSE TryFormats(text, k + 1)
parse_date(text) == TryFormats(text, 1)

\* str(date): YYYY-MM-DD
IsoText(date) == Pad(date.y, 4) \o <<"-">> \o Pad(date.m, 2) \o <<"-">> \o Pad(date.d, 2)

\* datetime.fromisoformat(text) on a stored date: ok is FALSE where it raises.
FromIso(text) ==
    IF /\ Len(text) = 10
       /\ text[5] = "-" /\ text[8] = "-"
       /\ AllDigits(SubSeq(text, 1, 4))
       /\ AllDigits(SubSeq(text, 6, 7))
       /\ AllDigits(SubSeq(text, 9, 10))
       /\ ValidDate(ToNat(SubSeq(text, 1, 4)), ToNat(SubSeq(text, 6, 7)),
                    ToNat(SubSeq(text, 9, 10)))
    THEN [ok |-> TRUE,
          date |-> [y |-> ToNat(SubSeq(text, 1, 4)), m |-> ToNat(SubSeq(text, 6, 7)),
                    d |-> ToNat(SubSeq(text, 9, 10))]]
    ELSE [ok |-> FALSE, date |-> NoDate]

(***************************************************************************)
(* The input lines typed at the prompts, and the clock                     *)
(***************************************************************************)
DateLines ==
    { <<>>,                                                   \* blank: today
      <<"2", "0", "2", "4", "-", "1", "-", "5">>,             \* %Y-%m-%d, unpadded
      <<"0", "1", "-", "0", "2", "-", "2", "0", "2", "4">>,   \* %d-%m-%Y
      <<" ", "2", "0", "2", "4", "/", "0", "1", "/", "0", "5", " ">>,  \* %Y/%m/%d
      <<"1", "3", "/", "4", "5", "/", "9", "9", "9", "9">>,   \* no format
      <<"2", "0", "2", "4", "-", "0", "2", "-", "3", "0">> }  \* no such day
TitleLines == { <<" ", "T", "e", "a">> }
CategoryLines == { <<>>, <<"F", "o", "o", "d">> }
AmountLines == { <<"5">>, <<"-", "5", ".", "0">>, <<"a", "b", "c">> }
NoteLines == { <<>> }
YearLines == { <<"2", "0", "2", "4">>, <<"2", "0", "x", "4">> }
MonthLines == { <<>>, <<"1">>, <<"J", "a", "n">> }
QueryLines == { <<"F", "O", "O", " ">>, <<"-", "0", "1", "-">> }
IdLines == { <<"1">>, <<" ", "2">>, <<"x">> }
\* datetime.today(): the day the operation runs on.
Todays == { [y |-> 2024, m |-> 2, d |-> 1] }
\* int(datetime.now().timestamp()*1000): two calls may read the same millisecond.
ClockReadings == {1, 2}

(***************************************************************************)
(* The backing file                                                        *)
(***************************************************************************)
\* What expenses.json can hold: nothing (absent), text json.load rejects
\* (empty, truncated, garbage), a JSON value that is no array (object), or an
\* array of records (array).
FileKinds == {"absent", "empty", "truncated", "garbage", "object", "array"}
JsonDecodes(kind) == kind \in {"object", "array"}

NoFile == [kind |-> "absent", recs |-> <<>>]
EmptyList == [type |-> "list", recs |-> <<>>]

\* load_data(): the value it returns for a file.
load_data(f) ==
    IF f.kind = "absent" THEN EmptyList
    ELSE IF ~JsonDecodes(f.kind) THEN EmptyList
    ELSE IF f.kind = "array" THEN [type |-> "list", recs |-> f.recs]
    ELSE [type |-> "dict", recs |-> <<>>]

\* A save that opens the file with "a": the list lands after what was there.
save_data_append(data) ==
    IF file.kind \in {"absent", "empty"}
    THEN [kind |-> "array", recs |-> data]
    ELSE [kind |-> "garbage", recs |-> <<>>]

\* save_data(data): the file is replaced by the serialized list.
save_data(data) == [kind |-> "array", recs |-> data]

Food == <<"F", "o", "o", "d">>
Transport == <<"T", "r", "a", "n", "s", "p", "o", "r", "t">>
Other == <<"O", "t", "h", "e", "r">>

Rec(id, date, title, category, amount, note) ==
    [id |-> id, date |-> date, title |-> title, category |-> category,
     amount |-> amount, note |-> note]

\* Files the program may find when it starts: those above, the three records
\* of the specification's example, a hand-edited file whose date is not ISO,
\* and a file with one record of amount zero.
ExampleRecs ==
    << Rec(1, <<"2", "0", "2", "4", "-", "0", "1", "-", "0", "5">>, <<"a">>, Food, 1000, <<>>),
       Rec(2, <<"2", "0", "2", "4", "-", "0", "1", "-", "2", "0">>, <<"b">>, Food, 2000, <<>>),
       Rec(3, <<"2", "0", "2", "4", "-", "0", "2", "-", "0", "1">>, <<"c">>, Transport, 500, <<>>) >>
EditedRecs ==
    << Rec(3, <<"0", "5", "-", "0", "1", "-", "2", "0", "2", "4">>, <<"d">>, Food, 500, <<>>) >>
ZeroRecs ==
    << Rec(3, <<"2", "0", "2", "4", "-", "0", "2", "-", "0", "1">>, <<"e">>, Food, 0, <<>>) >>
InitialFiles ==
    { NoFile,
      [kind |-> "empty", recs |-> <<>>],
      [kind |-> "truncated", recs |-> <<>>],
      [kind |-> "garbage", recs |-> <<>>],
      [kind |-> "object", recs |-> <<>>],
      [kind |-> "array", recs |-> ExampleRecs],
      [kind |-> "array", recs |-> EditedRecs],
      [kind |-> "array", recs |-> ZeroRecs] }

(***************************************************************************)
(* Pure parts of the operations                                            *)
(***************************************************************************)
RECURSIVE SumAmount(_)
SumAmount(rs) == IF rs = <<>> THEN 0 ELSE rs[1].amount + SumAmount(Tail(rs))

\* A descending sort that is not stable: a record goes before its equals.
InsertDesc_before_equals(placed, r) ==
    LET lower == {i \in DOMAIN placed : ~StrLess(r.date, placed[i].date)}
        k == IF lower = {} THEN Len(placed) + 1
             ELSE CHOOSE i \in lower : \A j \in lower : i <= j
    IN  SubSeq(placed, 1, k - 1) \o <<r>> \o SubSeq(placed, k, Len(placed))

\* sorted(data, key=lambda x: x["date"], reverse=True): each record goes before
\* the first one already placed whose date is smaller, so equal dates keep
\* their order.
InsertDesc(placed, r) ==
    LET smaller == {i \in DOMAIN placed : StrLess(placed[i].date, r.date)}
        k == IF smaller = {} THEN Len(placed) + 1
             ELSE CHOOSE i \in smaller : \A j \in smaller : i <= j
    IN  SubSeq(placed, 1, k - 1) \o <<r>> \o SubSeq(placed, k, Len(placed))
RECURSIVE SortedFrom(_, _)
SortedFrom(placed, rest) ==
    IF rest = <<>> THEN placed ELSE SortedFrom(InsertDesc(placed, rest[1]), Tail(rest))
sorted_by_date_desc(rs) == SortedFrom(<<>>, rs)

\* The filter of monthly_summary.
InMonth(r, year, month) ==
    FromIso(r.date).date.y = year /\ FromIso(r.date).date.m = month
month_filter(rs, year, month) ==
    LET Keep(r) == InMonth(r, year, month) IN SelectSeq(rs, Keep)

\* by_cat[c] = by_cat.get(c, 0) + amount, a dict in insertion order.
AddToCat(by_cat, r) ==
    IF \E i \in DOMAIN by_cat : by_cat[i].cat = r.category
    THEN [i \in DOMAIN by_cat |->
            IF by_cat[i].cat = r.category
            THEN [cat |-> by_cat[i].cat, amt |-> by_cat[i].amt + r.amount]
            ELSE by_cat[i]]
    ELSE Append(by_cat, [cat |-> r.category, amt |-> r.amount])
RECURSIVE GroupFrom(_, _)
GroupFrom(by_cat, rest) ==
    IF rest = <<>> THEN by_cat ELSE GroupFrom(AddToCat(by_cat, rest[1]), Tail(rest))
group_by_category(rs) == GroupFrom(<<>>, rs)

\* The filter of search.
Matches(r, q) ==
    Contains(Lower(r.title), q) \/ Contains(Lower(r.category), q) \/ Contains(r.date, q)
search_filter(rs, q) == LET Keep(r) == Matches(r, q) IN SelectSeq(rs, Keep)

\* A delete that removes the first record of the id only.
delete_filter_first(rs, id_num) ==
    LET hits == {k \in DOMAIN rs : rs[k].id = id_num}
        first == CHOOSE k \in hits : \A j \in hits : k <= j
    IN  IF hits = {} THEN rs
        ELSE SubSeq(rs, 1, first - 1) \o SubSeq(rs, first + 1, Len(rs))

\* The filter of delete.
delete_filter(rs, id_num) == LET Keep(r) == r.id # id_num IN SelectSeq(rs, Keep)

(***************************************************************************)
(* State                                                                   *)
(***************************************************************************)
NoInput ==
    [date |-> <<>>, title |-> <<>>, category |-> <<>>, amount |-> <<>>, note |-> <<>>,
     today |-> NoDate, clock |-> 0, year |-> <<>>, month |-> <<>>, query |-> <<>>,
     id |-> <<>>]

\* An operation returns to menu(): what it read and what it printed.
Observe(o, i, sv, oc, exc, sh, tot, bc) ==
    /\ pc' = "ran"
    /\ op' = o
    /\ inp' = i
    /\ before' = file
    /\ saved' = sv
    /\ outcome' = oc
    /\ error' = exc
    /\ shown' = sh
    /\ total' = tot
    /\ cats' = bc

\* It returns normally without a save: the file stays, the loop goes on.
Report(o, i, oc, sh, tot, bc) ==
    /\ Observe(o, i, FALSE, oc, "none", sh, tot, bc)
    /\ UNCHANGED <<file, running>>

\* It saves data and returns normally.
Save(o, i, oc, data) ==
    /\ file' = save_data(data)
    /\ Observe(o, i, TRUE, oc, "none", <<>>, 0, <<>>)
    /\ UNCHANGED running

\* An exception no handler catches leaves menu(): the process ends.
Raise(o, i, exc) ==
    /\ Observe(o, i, FALSE, "raised", exc, <<>>, 0, <<>>)
    /\ running' = FALSE
    /\ UNCHANGED file

\* menu() at its prompt: nothing read or printed yet.
AtPrompt ==
    /\ pc = "choose"
    /\ op = "menu"
    /\ inp = NoInput
    /\ before = file
    /\ saved = FALSE
    /\ outcome = "prompt"
    /\ error = "none"
    /\ shown = <<>>
    /\ total = 0
    /\ cats = <<>>

\* menu() comes (back) to its prompt over the file as it is.
ToPrompt ==
    /\ pc' = "choose"
    /\ op' = "menu"
    /\ inp' = NoInput
    /\ before' = file
    /\ saved' = FALSE
    /\ outcome' = "prompt"
    /\ error' = "none"
    /\ shown' = <<>>
    /\ total' = 0
    /\ cats' = <<>>
    /\ UNCHANGED file

Init ==
    /\ file \in InitialFiles
    /\ running = TRUE
    /\ AtPrompt

(***************************************************************************)
(* Operations                                                              *)
(***************************************************************************)
\* A date prompt that falls back to today where no format matches.
date_read_lenient(date_text, today) ==
    IF date_text = <<>> \/ ~parse_date(date_text).ok
    THEN [ok |-> TRUE, date |-> today]
    ELSE parse_date(date_text)

\* The date of add_expense: today for a blank line, else parse_date; ok is
\* FALSE where parse_date raises ValueError.
date_read(date_text, today) ==
    IF date_text = <<>> THEN [ok |-> TRUE, date |-> today] ELSE parse_date(date_text)

\* A record whose category is stored as typed, blank or not.
new_record_blank_category(date, i) ==
    Rec(i.clock, IsoText(date), Strip(i.title), Strip(i.category),
        ParseFloat(Strip(i.amount)).val, Strip(i.note))

\* The record add_expense builds from the lines read.
new_record(date, i) ==
    Rec(i.clock,
        IsoText(date),
        Strip(i.title),
        IF Strip(i.category) = <<>> THEN Other ELSE Strip(i.category),
        ParseFloat(Strip(i.amount)).val,
        Strip(i.note))

\* Choice 1.
add_expense ==
    /\ pc = "choose" /\ running
    /\ \E dl \in DateLines, today \in Todays :
        LET date == date_read(Strip(dl), today)
            i0 == [NoInput EXCEPT !.date = dl, !.today = today]
        IN  IF ~date.ok
            THEN \* ValueError, caught: nothing else is read
                 Report("add", i0, "invalid input", <<>>, 0, <<>>)
            ELSE \E tl \in TitleLines, cl \in CategoryLines, al \in AmountLines :
                 LET i1 == [i0 EXCEPT !.title = tl, !.category = cl, !.amount = al]
                 IN  IF ~ParseFloat(Strip(al)).ok
                     THEN \* float raised ValueError, caught: the note is not read
                          Report("add", i1, "invalid input", <<>>, 0, <<>>)
                     ELSE \E nl \in NoteLines, clock \in ClockReadings :
                          LET i2 == [i1 EXCEPT !.note = nl, !.clock = clock]
                              data == load_data(file)
                          IN  IF data.type # "list"
                              THEN \* data.append: AttributeError
                                   Raise("add", i2, "AttributeError")
                              ELSE /\ Len(data.recs) < MaxRecords
                                   /\ Save("add", i2, "added",
                                           Append(data.recs, new_record(date.date, i2)))

\* Choice 2.
view_all ==
    /\ pc = "choose" /\ running
    /\ LET data == load_data(file)
       IN  IF data.type # "list"
           THEN \* the key function indexes a str: TypeError
                Raise("view", NoInput, "TypeError")
           ELSE IF data.recs = <<>>
           THEN Report("view", NoInput, "no expenses", <<>>, 0, <<>>)
           ELSE Report("view", NoInput, "listed", sorted_by_date_desc(data.recs),
                       SumAmount(sorted_by_date_desc(data.recs)), <<>>)

\* A summary that guards the division: a zero total is reported like any other.
summarize_guarded(recs, year, month) ==
    LET filtered == month_filter(recs, year, month)
        Ends(oc, exc) == [outcome |-> oc, error |-> exc, total |-> 0, cats |-> <<>>]
    IN  IF \E k \in DOMAIN recs : ~FromIso(recs[k].date).ok
        THEN Ends("raised", "ValueError")
        ELSE IF filtered = <<>>
        THEN Ends("no records", "none")
        ELSE [outcome |-> "summary", error |-> "none", total |-> SumAmount(filtered),
              cats |-> group_by_category(filtered)]

\* monthly_summary once year and month are known: what it prints, or the
\* exception it ends with.
summarize(recs, year, month) ==
    LET filtered == month_filter(recs, year, month)
        sum == SumAmount(filtered)
        Ends(oc, exc) == [outcome |-> oc, error |-> exc, total |-> 0, cats |-> <<>>]
    IN  IF \E k \in DOMAIN recs : ~FromIso(recs[k].date).ok
        THEN Ends("raised", "ValueError")         \* fromisoformat
        ELSE IF filtered = <<>>
        THEN Ends("no records", "none")
        ELSE IF sum = 0
        THEN Ends("raised", "ZeroDivisionError")  \* amt/total
        ELSE [outcome |-> "summary", error |-> "none", total |-> sum,
              cats |-> group_by_category(filtered)]

\* Choice 3.
monthly_summary ==
    /\ pc = "choose" /\ running
    /\ \E yl \in YearLines, ml \in MonthLines, today \in Todays :
        LET y == Strip(yl)
            m == Strip(ml)
            i == [NoInput EXCEPT !.year = yl, !.month = ml, !.today = today]
            year == IF y # <<>> THEN ParseInt(y).val ELSE today.y
            month == IF m # <<>> THEN ParseInt(m).val ELSE today.m
            data == load_data(file)
            r == summarize(data.recs, year, month)
        IN  IF (y # <<>> /\ ~ParseInt(y).ok) \/ (m # <<>> /\ ~ParseInt(m).ok)
            THEN \* int raised ValueError, outside any try
                 Raise("monthly", i, "ValueError")
            ELSE IF data.type # "list"
            THEN Raise("monthly", i, "TypeError")
            ELSE IF r.error # "none"
            THEN Raise("monthly", i, r.error)
            ELSE Report("monthly", i, r.outcome, <<>>, r.total, r.cats)

\* Choice 4.
search ==
    /\ pc = "choose" /\ running
    /\ \E ql \in QueryLines :
        LET q == Lower(Strip(ql))
            i == [NoInput EXCEPT !.query = ql]
            data == load_data(file)
            result == search_filter(data.recs, q)
        IN  IF data.type # "list"
            THEN Raise("search", i, "TypeError")
            ELSE IF result = <<>>
            THEN Report("search", i, "no match", <<>>, 0, <<>>)
            ELSE Report("search", i, "found", result, 0, <<>>)

\* A delete that saves whether or not a record matched.
delete_plan_always_saves(recs, id_num) ==
    [save |-> TRUE, new_data |-> delete_filter(recs, id_num)]

\* delete once the id is known: the list it builds and whether it saves it.
delete_plan(recs, id_num) ==
    LET new_data == delete_filter(recs, id_num)
    IN  [save |-> Len(new_data) # Len(recs), new_data |-> new_data]

\* Choice 5.
delete ==
    /\ pc = "choose" /\ running
    /\ \E il \in IdLines :
        LET id_num == ParseInt(Strip(il))
            i == [NoInput EXCEPT !.id = il]
            data == load_data(file)
            plan == delete_plan(data.recs, id_num.val)
        IN  IF ~id_num.ok
            THEN \* int raised: caught by the bare except
                 Report("delete", i, "invalid id", <<>>, 0, <<>>)
            ELSE IF data.type # "list"
            THEN Raise("delete", i, "TypeError")
            ELSE IF ~plan.save
            THEN Report("delete", i, "not found", <<>>, 0, <<>>)
            ELSE Save("delete", i, "deleted", plan.new_data)

\* Choice 6. The rows go to expenses_export.csv, which the program never reads.
export_csv ==
    /\ pc = "choose" /\ running
    /\ LET data == load_data(file)
       IN  IF data.type # "list"
           THEN \* the header is written, then a row indexes a str: TypeError
                Raise("export", NoInput, "TypeError")
           ELSE IF data.recs = <<>>
           THEN Report("export", NoInput, "no data", <<>>, 0, <<>>)
           ELSE Report("export", NoInput, "exported", data.recs, 0, <<>>)

\* Choice 7: the loop breaks.
exit ==
    /\ pc = "choose" /\ running
    /\ Observe("exit", NoInput, FALSE, "goodbye", "none", <<>>, 0, <<>>)
    /\ running' = FALSE
    /\ UNCHANGED file

\* Any other choice.
invalid_choice ==
    /\ pc = "choose" /\ running
    /\ Report("choice", NoInput, "invalid choice", <<>>, 0, <<>>)

\* while True: the menu is printed again and the next choice is read.
next_choice ==
    /\ pc = "ran" /\ running
    /\ UNCHANGED running
    /\ ToPrompt

\* The program is run again: menu() from the top, over the file as it was left.
start ==
    /\ ~running
    /\ running' = TRUE
    /\ ToPrompt

menu ==
    \/ add_expense
    \/ view_all
    \/ monthly_summary
    \/ search
    \/ delete
    \/ export_csv
    \/ exit
    \/ invalid_choice
    \/ next_choice

Next == menu \/ start

Spec == Init /\ [][Next]_vars

(***************************************************************************)
(* Properties                                                              *)
(***************************************************************************)
Malformed == {"empty", "truncated", "garbage"}

\* An operation o has just returned.
Ran(o) == pc = "ran" /\ op = o
\* The collection a file stands for, where load_data gives a list.
HasCollection(f) == load_data(f).type = "list"
Stored(f) == load_data(f).recs

\* What was typed, as the prompts take it.
DateText == Strip(inp.date)
DateAccepted == DateText = <<>> \/ parse_date(DateText).ok
DateRejected == DateText # <<>> /\ ~parse_date(DateText).ok
AmountAccepted == ParseFloat(Strip(inp.amount)).ok
AmountRejected == DateAccepted /\ ~ParseFloat(Strip(inp.amount)).ok
IdAccepted == ParseInt(Strip(inp.id)).ok
YearAccepted == Strip(inp.year) = <<>> \/ ParseInt(Strip(inp.year)).ok
MonthAccepted == Strip(inp.month) = <<>> \/ ParseInt(Strip(inp.month)).ok
AskedYear == IF Strip(inp.year) = <<>> THEN inp.today.y ELSE ParseInt(Strip(inp.year)).val
AskedMonth == IF Strip(inp.month) = <<>> THEN inp.today.m ELSE ParseInt(Strip(inp.month)).val

\* The record the typed lines stand for.
TypedDate == IF DateText = <<>> THEN inp.today ELSE parse_date(DateText).date
IsTypedRecord(r) ==
    /\ r.title = Strip(inp.title)
    /\ r.note = Strip(inp.note)
    /\ r.amount = ParseFloat(Strip(inp.amount)).val
    /\ Len(r.date) = 10 /\ FromIso(r.date).ok /\ FromIso(r.date).date = TypedDate
    /\ r.category = (IF Strip(inp.category) = <<>> THEN Other ELSE Strip(inp.category))

\* C1: add_expense with a date line that is blank or in one of the three
\* formats and an amount line that converts, over a file that is absent,
\* unparseable or an array, saves the previous collection in its order followed
\* by one new record: title, amount and note as typed, the date in ISO form
\* (today when blank), the category as typed ("Other" when blank).
C1_AddAppendsOneRecord ==
    (Ran("add") /\ DateAccepted /\ AmountAccepted /\ HasCollection(before)) =>
        /\ outcome = "added" /\ saved /\ running
        /\ file.kind = "array"
        /\ Len(file.recs) = Len(Stored(before)) + 1
        /\ SubSeq(file.recs, 1, Len(Stored(before))) = Stored(before)
        /\ IsTypedRecord(file.recs[Len(file.recs)])

\* A record typed as DD-MM-YYYY with a blank category was added after another.
C1_Witness ==
    /\ Ran("add") /\ outcome = "added"
    /\ DateText = <<"0", "1", "-", "0", "2", "-", "2", "0", "2", "4">>
    /\ Strip(inp.category) = <<>>
    /\ Len(file.recs) = 2
    /\ file.recs[2].date = <<"2", "0", "2", "4", "-", "0", "2", "-", "0", "1">>

\* C2: add_expense with a non-blank date line in none of the three formats,
\* or with an amount line that does not convert, calls no save and leaves the
\* file as it was.
C2_RejectedAddLeavesStore ==
    (Ran("add") /\ (DateRejected \/ AmountRejected)) =>
        /\ file = before
        /\ ~saved
        /\ outcome = "invalid input"

\* A date of the right shape but no such day was rejected over stored records.
C2_Witness ==
    /\ Ran("add") /\ DateRejected
    /\ DateText = <<"2", "0", "2", "4", "-", "0", "2", "-", "3", "0">>
    /\ Len(Stored(before)) = 2

\* C3: delete with an integer id leaves exactly the records whose id differs,
\* in their order; an id held by one record shrinks the collection by one; an
\* id held by none leaves the file as it was, with no save.
C3_DeleteRemovesMatching ==
    (Ran("delete") /\ IdAccepted) =>
        LET n == ParseInt(Strip(inp.id)).val
            old == Stored(before)
            hits == {k \in DOMAIN old : old[k].id = n}
            kept == {k \in DOMAIN old : old[k].id # n}
            new == Stored(file)
        IN  /\ Len(new) = Cardinality(kept)
            /\ \A i \in DOMAIN new :
                 \E k \in kept : /\ new[i] = old[k]
                                 /\ Cardinality({j \in kept : j < k}) = i - 1
            /\ Cardinality(hits) = 1 => (Len(new) = Len(old) - 1 /\ saved)
            /\ hits = {} => (file = before /\ ~saved)
            /\ (hits = {} /\ HasCollection(before)) => outcome = "not found"

\* One record of two was deleted.
C3_Witness ==
    /\ Ran("delete") /\ outcome = "deleted"
    /\ Len(Stored(before)) = 2
    /\ Len(Stored(file)) = 1

\* C4: for every file that is not an array of records, load_data returns the
\* empty collection.
C4_LoadAbsorbsEveryBadFile ==
    file.kind # "array" => load_data(file) = EmptyList

\* C5: a line that fails validation (date or amount in add_expense, id in
\* delete, year or month in monthly_summary) ends only the operation: the menu
\* loop runs on and the file is as it was.
C5_RejectedInputKeepsMenuRunning ==
    ( \/ Ran("add") /\ (DateRejected \/ AmountRejected)
      \/ Ran("delete") /\ ~IdAccepted
      \/ Ran("monthly") /\ (~YearAccepted \/ ~MonthAccepted) ) =>
        /\ running
        /\ error = "none"
        /\ file = before

\* The records of a collection in the asked year and month, by the text of
\* the stored date.
InAskedMonth(r) ==
    /\ SubSeq(r.date, 1, 4) = Pad(AskedYear, 4)
    /\ SubSeq(r.date, 6, 7) = Pad(AskedMonth, 2)
AskedRecs == SelectSeq(Stored(before), InAskedMonth)
AllIso(rs) == \A k \in DOMAIN rs : Len(rs[k].date) = 10 /\ FromIso(rs[k].date).ok
\* The places where a category appears first.
FirstSeen(rs) == {k \in DOMAIN rs : \A j \in 1..(k - 1) : rs[j].category # rs[k].category}
RECURSIVE SumOver(_, _)
SumOver(rs, ks) ==
    IF ks = {} THEN 0
    ELSE LET k == CHOOSE x \in ks : TRUE IN rs[k].amount + SumOver(rs, ks \ {k})
RECURSIVE SumCats(_)
SumCats(cs) == IF cs = <<>> THEN 0 ELSE cs[1].amt + SumCats(Tail(cs))
\* The printed report is the one the claim describes for the asked month.
ReportIsRight ==
    /\ total = SumOver(AskedRecs, DOMAIN AskedRecs)
    /\ Len(cats) = Cardinality(FirstSeen(AskedRecs))
    /\ \A i \in DOMAIN cats :
         \E k \in FirstSeen(AskedRecs) :
            /\ Cardinality({j \in FirstSeen(AskedRecs) : j < k}) = i - 1
            /\ cats[i].cat = AskedRecs[k].category
            /\ cats[i].amt = SumOver(AskedRecs, {j \in DOMAIN AskedRecs :
                                        AskedRecs[j].category = AskedRecs[k].category})
    /\ SumCats(cats) = total

\* C6: over a collection of ISO dates, for any year and month with records,
\* monthly_summary reports the total of that month's records and each of
\* their categories once, in order of first appearance, with its subtotal.
C6_MonthlyReportsTotals ==
    ( /\ Ran("monthly") /\ YearAccepted /\ MonthAccepted
      /\ HasCollection(before) /\ AllIso(Stored(before))
      /\ AskedRecs # <<>> ) =>
        (outcome = "summary" /\ ReportIsRight)

\* Where monthly_summary does print a report, it is that report.
MonthlyReportIsRight ==
    (Ran("monthly") /\ outcome = "summary") => ReportIsRight

\* The example: January 2024 of the three records is Food 30.00, total 30.00.
MonthlyExampleWitness ==
    /\ Ran("monthly") /\ outcome = "summary"
    /\ Stored(before) = ExampleRecs
    /\ total = 3000
    /\ cats = <<[cat |-> Food, amt |-> 3000]>>

\* Two categories of one month were reported in their order of appearance.
MonthlyTwoCategoriesWitness ==
    /\ Ran("monthly") /\ outcome = "summary"
    /\ Len(cats) = 2
    /\ cats[1].cat = Stored(before)[1].category

\* C7: view_all lists every record once, by descending date text, equal dates
\* in their order of the collection, with the total of all amounts; over an
\* empty collection it reports "no expenses" and lists nothing.
C7_ViewAllSortedStable ==
    (Ran("view") /\ HasCollection(before)) =>
        LET old == Stored(before)
            n == Len(old)
        IN  IF old = <<>>
            THEN outcome = "no expenses" /\ shown = <<>>
            ELSE /\ outcome = "listed"
                 /\ Len(shown) = n
                 /\ total = SumOver(old, DOMAIN old)
                 /\ \E p \in [1..n -> 1..n] :
                      /\ \A i, j \in 1..n : i # j => p[i] # p[j]
                      /\ \A i \in 1..n : shown[i] = old[p[i]]
                      /\ \A i, j \in 1..n : i < j =>
                           /\ ~StrLess(shown[i].date, shown[j].date)
                           /\ shown[i].date = shown[j].date => p[i] < p[j]

\* The three records of the example were listed newest first, total 35.00.
C7_Witness ==
    /\ Ran("view")
    /\ Stored(before) = ExampleRecs
    /\ shown = <<ExampleRecs[3], ExampleRecs[2], ExampleRecs[1]>>
    /\ total = 3500

\* Two different records of one date were listed in their stored order.
C7_TieWitness ==
    /\ Ran("view") /\ Len(shown) = 2
    /\ shown[1].date = shown[2].date
    /\ shown[1] # shown[2]
    /\ shown = Stored(before)

\* A newer record stored last was listed first.
C7_ReorderWitness ==
    /\ Ran("view") /\ Len(shown) = 2
    /\ shown[1] = Stored(before)[2]
    /\ StrLess(shown[2].date, shown[1].date)

\* C8: view_all, monthly_summary, search and export_csv call no save and
\* leave the file as it was, however they end; the file differs from what an
\* operation found only after an add_expense that succeeded or a delete that
\* matched a record.
C8_OnlyAddAndDeleteWrite ==
    /\ (pc = "ran" /\ op \in {"view", "monthly", "search", "export"}) =>
            (file = before /\ ~saved)
    /\ (file # before \/ saved) =>
            \/ Ran("add") /\ outcome = "added"
            \/ /\ Ran("delete") /\ outcome = "deleted"
               /\ \E k \in DOMAIN Stored(before) :
                    Stored(before)[k].id = ParseInt(Strip(inp.id)).val

\* export_csv failed after the header, over a file that holds a JSON object.
C8_Witness ==
    /\ Ran("export") /\ error = "TypeError"
    /\ before.kind = "object"
    /\ file = before

\* C9: monthly_summary divides only over a non-empty month: an empty month is
\* reported as "no records"; a non-empty month whose amounts sum to zero ends
\* in an uncaught ZeroDivisionError and no report.
C9_ZeroTotalDivides ==
    ( /\ Ran("monthly") /\ YearAccepted /\ MonthAccepted
      /\ HasCollection(before) /\ AllIso(Stored(before)) ) =>
        /\ AskedRecs = <<>> => (outcome = "no records" /\ error = "none" /\ running)
        /\ (AskedRecs # <<>> /\ SumOver(AskedRecs, DOMAIN AskedRecs) = 0) =>
                /\ outcome = "raised" /\ error = "ZeroDivisionError"
                /\ ~running
                /\ cats = <<>>
        /\ error = "ZeroDivisionError" =>
                (AskedRecs # <<>> /\ SumOver(AskedRecs, DOMAIN AskedRecs) = 0)

\* Two amounts of one month that cancel ended monthly_summary in the division.
C9_Witness ==
    /\ Ran("monthly") /\ error = "ZeroDivisionError"
    /\ Len(AskedRecs) = 2
    /\ AskedRecs[1].amount # 0

\* One record of amount zero did.
C9_ZeroWitness ==
    /\ Ran("monthly") /\ error = "ZeroDivisionError"
    /\ Len(AskedRecs) = 1
    /\ AskedRecs[1].amount = 0

\* C10: over a file json.load rejects, an add_expense with accepted lines
\* reports success and leaves an array of exactly the new record; a delete
\* with an integer id reports "not found", calls no save and leaves the file.
C10_MalformedFileIsOverwritten ==
    (pc = "ran" /\ before.kind \in Malformed) =>
        /\ (op = "add" /\ DateAccepted /\ AmountAccepted) =>
                /\ outcome = "added" /\ error = "none"
                /\ file.kind = "array"
                /\ Len(file.recs) = 1
                /\ IsTypedRecord(file.recs[1])
        /\ (op = "delete" /\ IdAccepted) =>
                /\ outcome = "not found"
                /\ ~saved
                /\ file = before

\* A truncated file was replaced by a one-record array.
C10_Witness ==
    /\ Ran("add") /\ outcome = "added"
    /\ before.kind = "truncated"
    /\ file.kind = "array" /\ Len(file.recs) = 1

\* A delete left a truncated file as it was.
C10_DeleteWitness ==
    /\ Ran("delete") /\ outcome = "not found"
    /\ before.kind = "truncated"
    /\ file = before

=============================================================================
